---- MODULE Spec2Model ----
(***************************************************************************)
(* Model of the course service of the learning-management backend          *)
(* (backend/course_service.py, backend/models.py, backend/server.py):      *)
(* quiz grading, module progress upsert, course progress aggregation and   *)
(* the module repository, over the collections of the document store.      *)
(*                                                                         *)
(* Conventions.                                                            *)
(*  - A collection is a sequence of documents in insertion order.          *)
(*  - An optional field is a sequence of length 0 (unset / None) or 1.     *)
(*  - A float is an exact fraction [n, d] in lowest terms.  For the point  *)
(*    totals of this model (at most 40) the double computed by             *)
(*    (earned / total) * 100 compares with every integer 0..100 exactly as *)
(*    the fraction does, so comparisons agree with the program's.          *)
(*  - A text is a sequence of one-character strings.                       *)
(*  - A JSON value that may be missing, null or present is a record        *)
(*    [kind |-> "absent" | "null" | "value", val |-> ...].                 *)
(***************************************************************************)
EXTENDS Integers, Sequences, FiniteSets, TLC

VARIABLES
    courses,          \* db.courses: sequence of Course documents
    module_progress,  \* db.module_progress
    course_progress,  \* db.course_progress
    quiz_attempts,    \* db.quiz_attempts
    clock,            \* datetime.now(timezone.utc), one tick per request
    uuid,             \* number of module ids handed out by uuid.uuid4()
    last,             \* the request handled last: operation, arguments, outcome
    in_flight,        \* requests between two awaits, when requests overlap
    access_keys,      \* db.access_keys: the access key documents
    users             \* db.users: one document per access key that was validated

vars == <<courses, module_progress, course_progress, quiz_attempts, clock, uuid, last,
          in_flight, access_keys, users>>

-----------------------------------------------------------------------------
(* Bounds *)

MaxClock == 2
MaxAnswers == 2

ModuleIds == {1, 2}
PassingScores == {0, 50, 100}
PointValues == {0, 1, 2}

Range(s) == {s[i] : i \in 1..Len(s)}

SeqsUpTo(S, n) == UNION {[1..k -> S] : k \in 0..n}

-----------------------------------------------------------------------------
(* Fractions *)

RECURSIVE GCD(_, _)
GCD(a, b) == IF b = 0 THEN a ELSE GCD(b, a % b)

Frac(n, d) == IF n = 0 THEN [n |-> 0, d |-> 1]
              ELSE [n |-> n \div GCD(n, d), d |-> d \div GCD(n, d)]

FracAdd(x, y) == Frac(x.n * y.d + y.n * x.d, x.d * y.d)

FracGE(x, k) == x.n >= k * x.d

FracOfInt(k) == [n |-> k, d |-> 1]

RECURSIVE FracSum(_)
FracSum(s) == IF s = <<>> THEN FracOfInt(0) ELSE FracAdd(s[1], FracSum(Tail(s)))

RECURSIVE SumSeq(_)
SumSeq(s) == IF s = <<>> THEN 0 ELSE s[1] + SumSeq(Tail(s))

-----------------------------------------------------------------------------
(* Texts: str.lower() and str.strip() *)

Whitespace == {" ", "\t", "\n"}

lower_char(c) ==
    CASE c = "P" -> "p"
      [] c = "A" -> "a"
      [] c = "R" -> "r"
      [] c = "I" -> "i"
      [] c = "S" -> "s"
      [] OTHER -> c

lower(s) == [i \in 1..Len(s) |-> lower_char(s[i])]

RECURSIVE lstrip(_)
lstrip(s) == IF s # <<>> /\ s[1] \in Whitespace THEN lstrip(Tail(s)) ELSE s

RECURSIVE rstrip(_)
rstrip(s) == IF s # <<>> /\ s[Len(s)] \in Whitespace
             THEN rstrip(SubSeq(s, 1, Len(s) - 1)) ELSE s

strip(s) == rstrip(lstrip(s))

-----------------------------------------------------------------------------
(* JSON values of an answer dict *)

Absent == [kind |-> "absent", val |-> <<>>]
Null == [kind |-> "null", val |-> <<>>]
Value(v) == [kind |-> "value", val |-> v]

\* dict.get(key, default): the default only when the key is missing
dict_get(field, default) == IF field.kind = "absent" THEN Value(default) ELSE field

NoneId == "None"

-----------------------------------------------------------------------------
(* Grading: the loop body of submit_quiz *)

\* next((q for q in quiz.questions if q.id == answer["question_id"]), None)
find_question(quiz, question_id) ==
    LET hits == SelectSeq(quiz.questions, LAMBDA q : q.id = question_id)
    IN  IF hits = <<>> THEN <<>> ELSE <<hits[1]>>

\* [opt.id for opt in question.options if opt.is_correct]
correct_options(question) ==
    LET flagged == SelectSeq(question.options, LAMBDA o : o.is_correct)
    IN  [i \in 1..Len(flagged) |-> flagged[i].id]

\* next((opt.id for opt in question.options if opt.is_correct), None)
correct_option(question) ==
    LET ids == correct_options(question)
    IN  IF ids = <<>> THEN NoneId ELSE ids[1]

\* (variant: the length of the selection is not checked)
single_choice_first_selected(selected, correct) ==
    selected # <<>> /\ selected[1] \in Range(correct)

\* len(selected_options) == 1 and selected_options[0] in correct_options
single_choice_correct(selected, correct) ==
    Len(selected) = 1 /\ selected[1] \in Range(correct)

\* (variant: set(selected_options) <= set(correct_options))
multiple_choice_subset(selected, correct) ==
    Range(selected) \subseteq Range(correct)

\* set(selected_options) == set(correct_options)
multiple_choice_correct(selected, correct) ==
    Range(selected) = Range(correct)

\* len(selected_options) == 1 and selected_options[0] == correct_option
true_false_correct(selected, correct) ==
    Len(selected) = 1 /\ selected[1] = correct

\* (variant: compared without strip())
text_input_unstripped(text, reference) ==
    lower(text) = lower(reference)

\* answer.get("text_answer", "").lower().strip() == question.correct_answer.lower().strip()
text_input_correct(text, reference) ==
    strip(lower(text)) = strip(lower(reference))

ChoiceTypes == {"multiple_choice", "single_choice", "true_false"}

\* The answer raises: answer["question_id"] on a dict without the key (KeyError),
\* len()/set() of a null selected_options (TypeError), .lower() of a null
\* text_answer or of a missing reference answer (AttributeError).
answer_raises(quiz, answer) ==
    \/ answer.question_id.kind = "absent"
    \/ /\ answer.question_id.kind = "value"
       /\ find_question(quiz, answer.question_id.val) # <<>>
       /\ LET question == find_question(quiz, answer.question_id.val)[1]
          IN  \/ /\ question.type \in ChoiceTypes
                 /\ dict_get(answer.selected_options, <<>>).kind = "null"
              \/ /\ question.type = "text_input"
                 /\ \/ dict_get(answer.text_answer, <<>>).kind = "null"
                    \/ question.correct_answer.kind = "null"

\* The points one answer adds to earned_points.
answer_points(quiz, answer) ==
    IF answer.question_id.kind # "value" THEN 0
    ELSE IF find_question(quiz, answer.question_id.val) = <<>> THEN 0
    ELSE
      LET question == find_question(quiz, answer.question_id.val)[1]
          selected_options == dict_get(answer.selected_options, <<>>).val
          text_answer == dict_get(answer.text_answer, <<>>).val
      IN  CASE question.type = "single_choice" ->
                 IF single_choice_correct(selected_options, correct_options(question))
                 THEN question.points ELSE 0
            [] question.type = "multiple_choice" ->
                 IF multiple_choice_correct(selected_options, correct_options(question))
                 THEN question.points ELSE 0
            [] question.type = "true_false" ->
                 IF true_false_correct(selected_options, correct_option(question))
                 THEN question.points ELSE 0
            [] question.type = "text_input" ->
                 IF text_input_correct(text_answer, question.correct_answer.val)
                 THEN question.points ELSE 0
            [] OTHER -> 0

\* (variant: essay questions are left out of the total)
total_points_without_essay(quiz) ==
    SumSeq([i \in 1..Len(quiz.questions) |->
               IF quiz.questions[i].type = "essay" THEN 0 ELSE quiz.questions[i].points])

\* total_points = sum(q.points for q in quiz.questions)
total_points(quiz) == SumSeq([i \in 1..Len(quiz.questions) |-> quiz.questions[i].points])

\* (variant: integer division, (earned_points * 100) // total_points)
score_percentage_floor(earned, total) ==
    IF total > 0 THEN FracOfInt((earned * 100) \div total) ELSE FracOfInt(0)

\* (earned_points / total_points) * 100 if total_points > 0 else 0
score_percentage(earned, total) ==
    IF total > 0 THEN Frac(earned * 100, total) ELSE FracOfInt(0)

\* (variant: score_percentage > quiz.passing_score)
passed_strictly(score, passing_score) == score.n > passing_score * score.d

\* passed = score_percentage >= quiz.passing_score
passed(score, passing_score) == FracGE(score, passing_score)

-----------------------------------------------------------------------------
(* Document store: find_one, update_one, count_documents, aggregate *)

\* A filter is applied as the set of positions of the documents it matches.

\* position of the first matching document, 0 when none matches
first_match(matching) ==
    IF matching = {} THEN 0 ELSE CHOOSE i \in matching : \A k \in matching : i <= k

\* collection.find_one(filter)
find_one(coll, matching) ==
    IF matching = {} THEN <<>> ELSE <<coll[first_match(matching)]>>

\* (variant: the first matching document is replaced by the document an insert
\* would store, $setOnInsert fields included)
update_one_replacing(coll, matching, updated, inserted) ==
    IF matching = {} THEN Append(coll, inserted)
    ELSE [coll EXCEPT ![first_match(matching)] = inserted]

\* collection.update_one(filter, update, upsert=True): the first matching document
\* is replaced by its updated form; when none matches, one document is inserted
update_one_upsert(coll, matching, updated, inserted) ==
    IF matching = {} THEN Append(coll, inserted)
    ELSE [coll EXCEPT ![first_match(matching)] = updated[first_match(matching)]]

\* collection.count_documents(filter)
count_documents(matching) == Cardinality(matching)

\* CourseService.get_course: Optional[Course]
get_course(course_id) ==
    find_one(courses, {i \in 1..Len(courses) : courses[i].id = course_id})

-----------------------------------------------------------------------------
(* Progress tracking *)

\* (variant: the $match leaves out completed)
average_score_of_scored(mp, user_access_key, course_id) ==
    LET matched == SelectSeq(mp, LAMBDA d : /\ d.user_access_key = user_access_key
                                            /\ d.course_id = course_id
                                            /\ d.score # <<>>)
        scores == [i \in 1..Len(matched) |-> matched[i].score[1]]
        total == FracSum(scores)
    IN  IF matched = <<>> THEN <<>>
        ELSE <<Frac(total.n, total.d * Len(matched))>>

\* pipeline: $match completed with a score that exists and is not null,
\* $group with $avg of score; [] when nothing matches
average_score(mp, user_access_key, course_id) ==
    LET matched == SelectSeq(mp, LAMBDA d : /\ d.user_access_key = user_access_key
                                            /\ d.course_id = course_id
                                            /\ d.completed
                                            /\ d.score # <<>>)
        scores == [i \in 1..Len(matched) |-> matched[i].score[1]]
        total == FracSum(scores)
    IN  IF matched = <<>> THEN <<>>
        ELSE <<Frac(total.n, total.d * Len(matched))>>

\* (variant: the filter leaves out user_access_key)
completed_count_any_key(mp, user_access_key, course_id) ==
    count_documents({i \in 1..Len(mp) : mp[i].course_id = course_id /\ mp[i].completed})

\* count_documents({user_access_key, course_id, completed: True})
completed_count(mp, user_access_key, course_id) ==
    count_documents({i \in 1..Len(mp) : /\ mp[i].user_access_key = user_access_key
                                          /\ mp[i].course_id = course_id
                                          /\ mp[i].completed})

\* (variant: the ratio is not scaled to a percentage)
progress_percentage_unscaled(completed, total_modules) == Frac(completed, total_modules)

\* progress_percentage = (completed_count / total_modules) * 100
progress_percentage(completed, total_modules) == Frac(completed * 100, total_modules)

\* if progress_percentage >= 100: progress_data["completed_at"] = now
course_completed(percentage) == FracGE(percentage, 100)

\* (variant: only a missing course ends the recompute early)
returns_early_without_course(course) == course = <<>>

\* if not course: return; if total_modules == 0: return
returns_early(course) == course = <<>> \/ Len(course[1].modules) = 0

\* progress_data of _update_course_progress, applied to a stored document by $set
course_progress_set(d, total_modules, completed, percentage, overall_score, now) ==
    [d EXCEPT !.total_modules = total_modules,
              !.completed_modules = completed,
              !.progress_percentage = percentage,
              !.overall_score = overall_score,
              !.last_accessed = now,
              !.completed_at = IF course_completed(percentage) THEN <<now>> ELSE @]

\* the document the upsert inserts: the filter, progress_data and $setOnInsert
course_progress_inserted(user, course_id, total_modules, completed, percentage, overall_score, now) ==
    [user_access_key |-> user,
     course_id |-> course_id,
     total_modules |-> total_modules,
     completed_modules |-> completed,
     progress_percentage |-> percentage,
     overall_score |-> overall_score,
     last_accessed |-> now,
     completed_at |-> IF course_completed(percentage) THEN <<now>> ELSE <<>>,
     started_at |-> now]

\* CourseService._update_course_progress: the course_progress collection after it
update_course_progress(mp, cp, user_access_key, course_id, now) ==
    LET course == get_course(course_id)
    IN  IF returns_early(course) THEN cp
        ELSE
          LET total_modules == Len(course[1].modules)
              completed == completed_count(mp, user_access_key, course_id)
              percentage == progress_percentage(completed, total_modules)
              overall_score == average_score(mp, user_access_key, course_id)
              matching == {i \in 1..Len(cp) : /\ cp[i].user_access_key = user_access_key
                                              /\ cp[i].course_id = course_id}
              updated == [i \in 1..Len(cp) |->
                            course_progress_set(cp[i], total_modules, completed,
                                                percentage, overall_score, now)]
              inserted == course_progress_inserted(user_access_key, course_id,
                              total_modules, completed, percentage, overall_score, now)
          IN  update_one_upsert(cp, matching, updated, inserted)

\* (variant: a completed document stays completed)
module_progress_set_sticky(d, completed, score, now) ==
    [d EXCEPT !.completed = @ \/ completed,
              !.last_accessed = now,
              !.score = IF score # <<>> THEN score ELSE @,
              !.completed_at = IF completed THEN <<now>> ELSE @]

\* progress_data of update_module_progress, applied to a stored document by $set
module_progress_set(d, completed, score, now) ==
    [d EXCEPT !.completed = completed,
              !.last_accessed = now,
              !.score = IF score # <<>> THEN score ELSE @,
              !.completed_at = IF completed THEN <<now>> ELSE @]

\* the document the upsert inserts: the filter and progress_data
module_progress_inserted(user_access_key, course_id, module_id, completed, score, now) ==
    [user_access_key |-> user_access_key,
     course_id |-> course_id,
     module_id |-> module_id,
     completed |-> completed,
     last_accessed |-> now,
     score |-> score,
     completed_at |-> IF completed THEN <<now>> ELSE <<>>]

\* the module_progress upsert of update_module_progress
upsert_module_progress(mp, user_access_key, course_id, module_id, completed, score, now) ==
    LET matching == {i \in 1..Len(mp) : /\ mp[i].user_access_key = user_access_key
                                        /\ mp[i].course_id = course_id
                                        /\ mp[i].module_id = module_id}
        updated == [i \in 1..Len(mp) |-> module_progress_set(mp[i], completed, score, now)]
        inserted == module_progress_inserted(user_access_key, course_id, module_id,
                                             completed, score, now)
    IN  update_one_upsert(mp, matching, updated, inserted)

\* CourseService.update_module_progress: both collections after it
update_module_progress(user_access_key, course_id, module_id, completed, score) ==
    /\ module_progress' = upsert_module_progress(module_progress, user_access_key,
                              course_id, module_id, completed, score, clock)
    /\ course_progress' = update_course_progress(module_progress', course_progress,
                              user_access_key, course_id, clock)

-----------------------------------------------------------------------------
(* Requests *)

Request(op, user, course_id, module_id, quiz_id, answers, ret) ==
    [op |-> op, user |-> user, course_id |-> course_id, module_id |-> module_id,
     quiz_id |-> quiz_id, answers |-> answers, ret |-> ret]

ErrorResult(reason) == [kind |-> "error", error |-> reason]
Raised == [kind |-> "raised"]
Returned(v) == [kind |-> "returned", value |-> v]

\* (variant: the quiz id is not compared)
find_quiz_any_id(course, module_id, quiz_id) ==
    LET mods == SelectSeq(course.modules, LAMBDA m : m.id = module_id)
    IN  IF mods = <<>> THEN <<>> ELSE mods[1].quiz

\* the for-loop of submit_quiz that finds the module and, inside it, the quiz
find_quiz(course, module_id, quiz_id) ==
    LET mods == SelectSeq(course.modules, LAMBDA m : m.id = module_id)
    IN  IF mods = <<>> THEN <<>>
        ELSE IF mods[1].quiz # <<>> /\ mods[1].quiz[1].id = quiz_id THEN mods[1].quiz
        ELSE <<>>

\* the points each answer of the list adds, in order
awarded(quiz, answers) == [i \in 1..Len(answers) |-> answer_points(quiz, answers[i])]

\* attempt = QuizAttempt(..., answers=[], score=..., max_score=..., passed=...);
\* started_at and completed_at take their defaults, the time of construction
QuizAttempt(user, course_id, module_id, quiz_id, answers, score, total, pass, now) ==
    [user_access_key |-> user, course_id |-> course_id, module_id |-> module_id,
     quiz_id |-> quiz_id, answers |-> <<>>, score |-> score, max_score |-> total,
     passed |-> pass, started_at |-> now, completed_at |-> now]

\* CourseService.submit_quiz (server.submit_quiz passes the request through)
SubmitQuiz(user, course_id, module_id, quiz_id, answers) ==
    LET course == get_course(course_id)
        quiz == IF course = <<>> THEN <<>> ELSE find_quiz(course[1], module_id, quiz_id)
        Req(ret) == Request("submit_quiz", user, course_id, module_id, quiz_id, answers, ret)
    IN  IF course = <<>> THEN
          /\ last' = Req(ErrorResult("Course not found"))
          /\ UNCHANGED <<courses, module_progress, course_progress, quiz_attempts, clock, uuid, in_flight, access_keys, users>>
        ELSE IF quiz = <<>> THEN
          /\ last' = Request("submit_quiz", "", course_id, module_id, quiz_id, <<>>,
                             ErrorResult("Quiz not found"))
          /\ UNCHANGED <<courses, module_progress, course_progress, quiz_attempts, clock, uuid, in_flight, access_keys, users>>
        ELSE IF \E i \in 1..Len(answers) : answer_raises(quiz[1], answers[i]) THEN
          /\ last' = Request("submit_quiz", "", course_id, module_id, quiz_id, <<>>, Raised)
          /\ UNCHANGED <<courses, module_progress, course_progress, quiz_attempts, clock, uuid, in_flight, access_keys, users>>
        ELSE
          LET total == total_points(quiz[1])
              awards == awarded(quiz[1], answers)
              earned_points == SumSeq(awards)
              score == score_percentage(earned_points, total)
              pass == passed(score, quiz[1].passing_score)
              attempt == QuizAttempt(user, course_id, module_id, quiz_id, answers,
                                     score, total, pass, clock)
          IN  /\ clock < MaxClock
              /\ quiz_attempts' = Append(quiz_attempts, attempt)
              /\ update_module_progress(user, course_id, module_id, pass, <<score>>)
              /\ clock' = clock + 1
              /\ last' = Req([kind |-> "result", score |-> score, max_score |-> total,
                              earned_points |-> earned_points, passed |-> pass,
                              passing_score |-> quiz[1].passing_score,
                              awards |-> awards])
              /\ UNCHANGED <<courses, uuid, in_flight, access_keys, users>>

\* server.complete_module: update_module_progress(current_user, course_id, module_id, True)
CompleteModule(user, course_id, module_id) ==
    /\ clock < MaxClock
    /\ update_module_progress(user, course_id, module_id, TRUE, <<>>)
    /\ clock' = clock + 1
    /\ last' = Request("complete_module", user, course_id, module_id, "", <<>>, Returned(TRUE))
    /\ UNCHANGED <<courses, quiz_attempts, uuid, in_flight, access_keys, users>>

\* courses.update_one({"id": course_id}, update) on the modules of the first
\* matching course, if any
update_course_modules(course_id, modules) ==
    LET matching == {i \in 1..Len(courses) : courses[i].id = course_id}
    IN  IF matching = {} THEN courses
        ELSE [courses EXCEPT ![first_match(matching)].modules = modules]

\* ModuleCreate(**body): the fields of the model are kept, every other key of
\* the request body (an order, an id) is dropped
ModuleCreate(body) == [quiz |-> body.quiz]

\* (variant: one more than the largest order in the course)
next_order_after_largest(course) ==
    IF course.modules = <<>> THEN 0
    ELSE 1 + CHOOSE o \in {m.order : m \in Range(course.modules)} :
                 \A m \in Range(course.modules) : o >= m.order

\* next_order = len(course.modules)
next_order(course) == Len(course.modules)

\* CourseService.add_module: CourseModule(**module_data.dict(), order=next_order),
\* id from uuid.uuid4(), $push onto modules
AddModule(course_id, body) ==
    LET course == get_course(course_id)
        module_data == ModuleCreate(body)
        Req(ret) == Request("add_module", "", course_id, uuid + 1, "", <<>>, ret)
                    @@ [body |-> body]
    IN  IF course = <<>> THEN
          /\ last' = Req(Returned(FALSE))
          /\ UNCHANGED <<courses, module_progress, course_progress, quiz_attempts, clock, uuid, in_flight, access_keys, users>>
        ELSE
          LET new_module == [id |-> uuid + 1, order |-> next_order(course[1]),
                             quiz |-> module_data.quiz]
          IN  /\ uuid' = uuid + 1
              /\ courses' = update_course_modules(course_id,
                                Append(course[1].modules, new_module))
              /\ last' = Req(Returned(TRUE))
              /\ UNCHANGED <<module_progress, course_progress, quiz_attempts, clock, in_flight, access_keys, users>>

\* CourseService.delete_module: $pull of every embedded module with the id
DeleteModule(course_id, module_id) ==
    LET course == get_course(course_id)
        after == IF course = <<>> THEN courses
                 ELSE update_course_modules(course_id,
                          SelectSeq(course[1].modules, LAMBDA m : m.id # module_id))
    IN  /\ courses' = after
        /\ last' = Request("delete_module", "", course_id, module_id, "", <<>>,
                           Returned(after # courses))
        /\ UNCHANGED <<module_progress, course_progress, quiz_attempts, clock, uuid, in_flight, access_keys, users>>

\* courses.update_one({"id": course_id, "modules.id": module_id},
\* {"$set": {"modules.$.order": new_order}}): the first module with the id
set_module_order(modules, module_id, new_order) ==
    LET matching == {k \in 1..Len(modules) : modules[k].id = module_id}
    IN  IF matching = {} THEN modules
        ELSE [modules EXCEPT ![first_match(matching)].order = new_order]

\* item["id"] or item["order"] raises KeyError
item_raises(item) == item.id.kind = "absent" \/ item.order.kind = "absent"

\* (variant: the items are applied last to first)
RECURSIVE reordered_backwards(_, _)
reordered_backwards(modules, module_orders) ==
    IF module_orders = <<>> THEN modules
    ELSE LET item == Head(module_orders)
         IN  IF item_raises(item) THEN modules
             ELSE set_module_order(reordered_backwards(modules, Tail(module_orders)),
                                   item.id.val, item.order.val)

\* the for-loop of reorder_modules: one update per item, up to the first item
\* that raises
RECURSIVE reordered(_, _)
reordered(modules, module_orders) ==
    IF module_orders = <<>> THEN modules
    ELSE LET item == Head(module_orders)
         IN  IF item_raises(item) THEN modules
             ELSE reordered(set_module_order(modules, item.id.val, item.order.val),
                            Tail(module_orders))

\* CourseService.reorder_modules
ReorderModules(course_id, module_orders) ==
    LET course == get_course(course_id)
        Req(ret) == Request("reorder_modules", "", course_id, 0, "", <<>>, ret)
                    @@ [module_orders |-> module_orders]
    IN  IF course = <<>> THEN
          /\ last' = Req(Returned(FALSE))
          /\ UNCHANGED <<courses, module_progress, course_progress, quiz_attempts, clock, uuid, in_flight, access_keys, users>>
        ELSE
          /\ courses' = update_course_modules(course_id,
                            reordered(course[1].modules, module_orders))
          /\ last' = Req(IF \E k \in 1..Len(module_orders) : item_raises(module_orders[k])
                         THEN Raised ELSE Returned(TRUE))
          /\ UNCHANGED <<module_progress, course_progress, quiz_attempts, clock, uuid, in_flight, access_keys, users>>

-----------------------------------------------------------------------------
(* Inputs: quizzes and answer lists *)

Option(id, is_correct) == [id |-> id, is_correct |-> is_correct]

Question(id, type, options, correct_answer, points) ==
    [id |-> id, type |-> type, options |-> options,
     correct_answer |-> correct_answer, points |-> points]

Quiz(id, questions, passing_score) ==
    [id |-> id, questions |-> questions, passing_score |-> passing_score,
     max_attempts |-> <<>>]

Answer(question_id, selected_options, text_answer) ==
    [question_id |-> question_id, selected_options |-> selected_options,
     text_answer |-> text_answer]

Paris == <<"P", "a", "r", "i", "s">>
ParisLower == <<"p", "a", "r", "i", "s">>
ParisUpper == <<"P", "A", "R", "I", "S">>
ParisPadded == <<" ", "P", "a", "r", "i", "s", " ">>
ParisTabbed == <<"\t", "p", "a", "r", "i", "s", "\n">>
Pariss == <<"P", "a", "r", "i", "s", "s">>
ParisSplit == <<"P", "a", " ", "r", "i", "s">>

ReferenceAnswers == {Null, Value(Paris), Value(ParisPadded), Value(ParisUpper), Value(<<>>)}

TextAnswers == {Absent, Null} \cup
    {Value(t) : t \in {Paris, ParisLower, ParisUpper, ParisPadded, ParisTabbed,
                       Pariss, ParisSplit, <<>>, <<" ">>}}

OptionLists == {<<>>} \cup
    {<<Option("A", a), Option("B", b), Option("C", c)>> : a, b, c \in BOOLEAN}

Selections == {Absent, Null} \cup
    {Value(sel) : sel \in {<<>>, <<"A">>, <<"B">>, <<"C">>, <<"A", "B">>, <<"B", "A">>,
                           <<"A", "A">>, <<"A", "B", "C">>, <<NoneId>>}}

\* every question with the given id: the fields its type does not read are left empty
Questions(id) ==
    {Question(id, type, options, Null, points) :
        type \in ChoiceTypes, options \in OptionLists, points \in PointValues}
    \cup {Question(id, "essay", <<>>, Null, points) : points \in PointValues}
    \cup {Question(id, "text_input", <<>>, reference, points) :
             reference \in ReferenceAnswers, points \in PointValues}

\* one question of each type, for the quizzes of two questions
CoreQuestions(id) ==
    { Question(id, "single_choice",
               <<Option("A", TRUE), Option("B", FALSE), Option("C", FALSE)>>, Null, 1),
      Question(id, "multiple_choice",
               <<Option("A", TRUE), Option("B", TRUE), Option("C", FALSE)>>, Null, 2),
      Question(id, "true_false",
               <<Option("A", FALSE), Option("B", TRUE), Option("C", FALSE)>>, Null, 1),
      Question(id, "text_input", <<>>, Value(Paris), 2),
      Question(id, "essay", <<>>, Null, 1),
      Question(id, "single_choice",
               <<Option("A", TRUE), Option("B", FALSE), Option("C", FALSE)>>, Null, 0) }

QuizPool ==
    {Quiz("z1", questions, passing_score) :
        questions \in {<<>>} \cup {<<q>> : q \in Questions("q1")}
                      \cup {<<q, r>> : q \in CoreQuestions("q1"), r \in CoreQuestions("q2")},
        passing_score \in PassingScores}

\* the answers worth submitting for a question: the field its type reads takes
\* every value, the field it ignores is absent
AnswersFor(question, rich) ==
    CASE question.type \in ChoiceTypes ->
           {Answer(Value(question.id), sel, Absent) :
               sel \in IF rich THEN Selections
                       ELSE {Null, Value(<<>>), Value(<<"A">>), Value(<<"B">>),
                             Value(<<"A", "B">>)}}
      [] question.type = "text_input" ->
           {Answer(Value(question.id), Absent, text) :
               text \in IF rich THEN TextAnswers
                        ELSE {Null, Value(ParisLower), Value(Pariss)}}
      [] OTHER -> {Answer(Value(question.id), Value(<<"A">>), Value(Paris))}

\* an answer to a question the quiz does not have, and one without question_id
StrayAnswers == {Answer(Value("q9"), Value(<<"A">>), Value(Paris)),
                 Answer(Absent, Value(<<"A">>), Value(Paris))}

AnswerLists(quiz) ==
    SeqsUpTo(StrayAnswers \cup
             UNION {AnswersFor(quiz.questions[i], Len(quiz.questions) = 1) :
                       i \in 1..Len(quiz.questions)},
             MaxAnswers)

\* the quiz an administrator puts into the quiz modules of the store:
\* two questions of one point each, passed with one of them right
\* the quiz of the store allows one attempt
StoreQuiz ==
    [Quiz("z1", <<Question("q1", "single_choice",
                    <<Option("A", TRUE), Option("B", FALSE)>>, Null, 1),
                  Question("q2", "true_false",
                    <<Option("A", FALSE), Option("B", TRUE)>>, Null, 1)>>, 50)
       EXCEPT !.max_attempts = <<1>>]
ModuleContents == {<<>>, <<StoreQuiz>>}

\* scores 0, 50 and 100 of StoreQuiz, and a list that raises
StoreAnswerLists ==
    { <<Answer(Value("q1"), Value(<<"B">>), Absent)>>,
      <<Answer(Value("q1"), Value(<<"A">>), Absent)>>,
      <<Answer(Value("q1"), Value(<<"A">>), Absent), Answer(Value("q2"), Value(<<"B">>), Absent)>>,
      <<Answer(Value("q1"), Null, Absent)>> }

-----------------------------------------------------------------------------
(* The service over its store *)

\* who asks for progress on what: key k1 on every module id of the stored course,
\* a second key on one of them, and a course id that is not in the store
ProgressRequests ==
    {<<"k1", "c1", module_id>> : module_id \in ModuleIds}
    \cup {<<"k2", "c1", 1>>, <<"k1", "c2", 1>>}

\* every answer list for the quiz id of StoreQuiz, one submission for a quiz id
\* no module carries
SubmitRequests ==
    {<<r[1], r[2], r[3], "z1", answers>> : r \in ProgressRequests, answers \in StoreAnswerLists}
    \cup {<<"k1", "c1", 1, "z2", <<>>>>}

\* request bodies of add_module without keys that ModuleCreate does not have
AddRequests ==
    {<<"c1", [quiz |-> content, order |-> Absent]>> : content \in ModuleContents}
    \cup {<<"c2", [quiz |-> <<>>, order |-> Absent]>>}

DeleteRequests == {<<"c1", module_id>> : module_id \in ModuleIds} \cup {<<"c2", 1>>}

\* an add that stores a module takes the next id, which must be in the pool
id_left(course_id, pool) == get_course(course_id) = <<>> \/ uuid + 1 \in pool

NoRequest == Request("init", "", "", 0, "", <<>>, [kind |-> "none"])

Init ==
    /\ courses = <<[id |-> "c1", modules |-> <<>>]>>
    /\ module_progress = <<>>
    /\ course_progress = <<>>
    /\ quiz_attempts = <<>>
    /\ clock = 0
    /\ uuid = 0
    /\ last = NoRequest
    /\ in_flight = <<>>
    /\ access_keys = <<>>
    /\ users = <<>>

DoCompleteModule ==
    \E r \in ProgressRequests : CompleteModule(r[1], r[2], r[3])

DoSubmitQuiz ==
    \E r \in SubmitRequests : SubmitQuiz(r[1], r[2], r[3], r[4], r[5])

DoAddModule ==
    \E r \in AddRequests : id_left(r[1], ModuleIds) /\ AddModule(r[1], r[2])

DoDeleteModule ==
    \E r \in DeleteRequests : DeleteModule(r[1], r[2])

Next == DoCompleteModule \/ DoSubmitQuiz \/ DoAddModule \/ DoDeleteModule

Spec == Init /\ [][Next]_vars

-----------------------------------------------------------------------------
(* Module editing alone: the administrator's add, delete and reorder *)

MaxPairs == 2

\* request bodies of add_module, some carrying an order of the caller's
OrderedAddRequests ==
    {<<"c1", [quiz |-> <<>>, order |-> order]>> : order \in {Absent, Value(0), Value(2)}}
    \cup {<<"c2", [quiz |-> <<>>, order |-> Absent]>>}

\* items of a reorder request: the ids of the course's modules and one id no
\* module has, and an item without id
OrderItems ==
    {[id |-> Value(module_id), order |-> Value(order)] :
        module_id \in ModuleIds \cup {3}, order \in {0, 2}}
    \cup {[id |-> Absent, order |-> Value(0)]}

ReorderRequests ==
    {<<"c1", module_orders>> : module_orders \in SeqsUpTo(OrderItems, MaxPairs)}
    \cup {<<"c2", <<[id |-> Value(1), order |-> Value(0)]>>>>}

DoAddOrderedModule ==
    \E r \in OrderedAddRequests : id_left(r[1], ModuleIds) /\ AddModule(r[1], r[2])

DoReorderModules ==
    \E r \in ReorderRequests : ReorderModules(r[1], r[2])

EditNext == DoAddOrderedModule \/ DoDeleteModule \/ DoReorderModules

EditSpec == Init /\ [][EditNext]_vars

-----------------------------------------------------------------------------
(* Adding and deleting alone, with a third module id *)

CatalogIds == ModuleIds \cup {3}

DoAddCatalogModule ==
    \E r \in AddRequests : id_left(r[1], CatalogIds) /\ AddModule(r[1], r[2])

DoDeleteCatalogModule ==
    \E r \in {<<"c1", module_id>> : module_id \in CatalogIds} \cup {<<"c2", 1>>} :
        DeleteModule(r[1], r[2])

CatalogNext == DoAddCatalogModule \/ DoDeleteCatalogModule

CatalogSpec == Init /\ [][CatalogNext]_vars

-----------------------------------------------------------------------------
(* Grading alone: one submission to a store holding one drawn quiz *)

GradeInit ==
    \E quiz \in QuizPool :
        /\ courses = <<[id |-> "c1",
                        modules |-> <<[id |-> 1, order |-> 0, quiz |-> <<quiz>>]>>]>>
        /\ module_progress = <<>>
        /\ course_progress = <<>>
        /\ quiz_attempts = <<>>
        /\ clock = 0
        /\ uuid = 1
        /\ last = NoRequest
        /\ in_flight = <<>>
        /\ access_keys = <<>>
        /\ users = <<>>

Grade ==
    /\ last.op = "init"
    /\ \E answers \in AnswerLists(courses[1].modules[1].quiz[1]) :
           SubmitQuiz("k1", "c1", 1, "z1", answers)

GradeNext == Grade

GradeSpec == GradeInit /\ [][GradeNext]_vars

-----------------------------------------------------------------------------
(* The aggregator alone: recomputes over a store that earlier requests left *)

\* what update_module_progress may have written for one module: nothing, a
\* completion without score, or a graded submission (passed or failed)
ProgressWrites ==
    {<<>>} \cup {<<[completed |-> TRUE, score |-> <<>>]>>}
    \cup {<<[completed |-> completed, score |-> <<FracOfInt(score)>>]>> :
             completed \in BOOLEAN, score \in PassingScores}

\* the module_progress collection after the writes for module 1 and module 2
written_progress(first, second) ==
    LET write(mp, module_id, w) ==
            IF w = <<>> THEN mp
            ELSE upsert_module_progress(mp, "k1", "c1", module_id,
                                        w[1].completed, w[1].score, 0)
    IN  write(write(<<>>, 1, first), 2, second)

RecomputeRequests == {<<"k1", "c1">>, <<"k2", "c1">>, <<"k1", "c2">>}

AggregateInit ==
    \E count \in {0} \cup ModuleIds, first \in ProgressWrites, second \in ProgressWrites :
        /\ courses = <<[id |-> "c1",
                        modules |-> [i \in 1..count |->
                                        [id |-> i, order |-> i - 1, quiz |-> <<>>]]]>>
        /\ module_progress = written_progress(first, second)
        /\ course_progress = <<>>
        /\ quiz_attempts = <<>>
        /\ clock = 0
        /\ uuid = count
        /\ last = NoRequest
        /\ in_flight = <<>>
        /\ access_keys = <<>>
        /\ users = <<>>

\* one call of CourseService._update_course_progress
Recompute(user_access_key, course_id) ==
    /\ clock < MaxClock
    /\ course_progress' = update_course_progress(module_progress, course_progress,
                              user_access_key, course_id, clock)
    /\ clock' = clock + 1
    /\ last' = Request("recompute", user_access_key, course_id, 0, "", <<>>,
                       Returned(NoneId))
    /\ UNCHANGED <<courses, module_progress, quiz_attempts, uuid, in_flight, access_keys, users>>

DoRecompute ==
    \E r \in RecomputeRequests : Recompute(r[1], r[2])

AggregateNext == DoRecompute

AggregateSpec == AggregateInit /\ [][AggregateNext]_vars

-----------------------------------------------------------------------------
(* Overlapping requests: update_module_progress, one store call at a time.
   The handlers are coroutines, and every await of a store call lets another
   request run.  No index is created on any collection, so an update_one with
   upsert=True is a match followed, when nothing matched, by an insert, and
   two requests can both match nothing before either of them inserts. *)

\* complete_module requests that may overlap
OverlapRequests == {<<"k1", "c1", 1>>, <<"k1", "c1", 2>>}

\* a request between two awaits: its arguments, the time it last read, the
\* store call it makes next, the locals of _update_course_progress, and what
\* its handler returns in the end
InFlight(user, course_id, module_id, completed, score, now) ==
    [user |-> user, course_id |-> course_id, module_id |-> module_id,
     completed |-> completed, score |-> score, now |-> now,
     pc |-> "upsert_module_progress",
     course |-> <<>>, completed_count |-> 0, overall_score |-> <<>>,
     returning |-> Request("complete_module", user, course_id, module_id, "", <<>>,
                           Returned(TRUE))]

OverlapInit ==
    /\ courses = <<[id |-> "c1",
                    modules |-> [i \in 1..2 |->
                                    [id |-> i, order |-> i - 1,
                                     quiz |-> IF i = 1 THEN <<StoreQuiz>> ELSE <<>>]]]>>
    /\ module_progress = <<>>
    /\ course_progress = <<>>
    /\ quiz_attempts = <<>>
    /\ clock = 0
    /\ uuid = 2
    /\ last = NoRequest
    /\ in_flight = <<>>
    /\ access_keys = <<>>
    /\ users = <<>>

\* the request at position i goes on to its next store call
goes_on(i, r) == in_flight' = [in_flight EXCEPT ![i] = r]

\* the request at position i is over
leaves(i) ==
    in_flight' = [k \in 1..(Len(in_flight) - 1) |->
                     IF k < i THEN in_flight[k] ELSE in_flight[k + 1]]

\* update_module_progress returns True to the handler of the request at
\* position i, which returns in turn
returns(i) ==
    /\ leaves(i)
    /\ last' = in_flight[i].returning

\* server.complete_module up to the first await: progress_data is built
StartCompleteModule(user, course_id, module_id) ==
    /\ clock < MaxClock
    /\ in_flight' = Append(in_flight,
                           InFlight(user, course_id, module_id, TRUE, <<>>, clock))
    /\ clock' = clock + 1
    /\ UNCHANGED <<courses, module_progress, course_progress, quiz_attempts, uuid, access_keys, users, last>>

\* module_progress.update_one(..., upsert=True): a matching document is updated
MatchModuleProgress(i) ==
    LET r == in_flight[i]
        matching == {k \in 1..Len(module_progress) :
                        /\ module_progress[k].user_access_key = r.user
                        /\ module_progress[k].course_id = r.course_id
                        /\ module_progress[k].module_id = r.module_id}
    IN  /\ r.pc = "upsert_module_progress"
        /\ IF matching = {}
           THEN /\ goes_on(i, [r EXCEPT !.pc = "insert_module_progress"])
                /\ UNCHANGED module_progress
           ELSE /\ module_progress' =
                     [module_progress EXCEPT ![first_match(matching)] =
                         module_progress_set(@, r.completed, r.score, r.now)]
                /\ goes_on(i, [r EXCEPT !.pc = "get_course"])
        /\ UNCHANGED <<courses, course_progress, quiz_attempts, clock, uuid, access_keys, users, last>>

\* ... and when none matched, the document is inserted
InsertModuleProgress(i) ==
    LET r == in_flight[i]
    IN  /\ r.pc = "insert_module_progress"
        /\ module_progress' =
              Append(module_progress,
                     module_progress_inserted(r.user, r.course_id, r.module_id,
                                              r.completed, r.score, r.now))
        /\ goes_on(i, [r EXCEPT !.pc = "get_course"])
        /\ UNCHANGED <<courses, course_progress, quiz_attempts, clock, uuid, access_keys, users, last>>

\* _update_course_progress: course = await self.get_course(course_id)
GetCourse(i) ==
    LET r == in_flight[i]
        course == get_course(r.course_id)
    IN  /\ r.pc = "get_course"
        /\ IF returns_early(course)
           THEN returns(i)
           ELSE /\ goes_on(i, [r EXCEPT !.pc = "count_documents", !.course = course])
                /\ UNCHANGED last
        /\ UNCHANGED <<courses, module_progress, course_progress, quiz_attempts, clock, uuid, access_keys, users>>

\* completed_count = await self.db.module_progress.count_documents(...)
CountDocuments(i) ==
    LET r == in_flight[i]
    IN  /\ r.pc = "count_documents"
        /\ goes_on(i, [r EXCEPT !.pc = "aggregate",
                                !.completed_count =
                                    completed_count(module_progress, r.user, r.course_id)])
        /\ UNCHANGED <<courses, module_progress, course_progress, quiz_attempts, clock,
                       uuid, access_keys, users, last>>

\* avg_result = await self.db.module_progress.aggregate(pipeline).to_list(1);
\* progress_data is built with the time read now
Aggregate(i) ==
    LET r == in_flight[i]
    IN  /\ r.pc = "aggregate"
        /\ goes_on(i, [r EXCEPT !.pc = "upsert_course_progress",
                                !.overall_score =
                                    average_score(module_progress, r.user, r.course_id),
                                !.now = clock])
        /\ UNCHANGED <<courses, module_progress, course_progress, quiz_attempts, clock,
                       uuid, access_keys, users, last>>

\* course_progress.update_one(..., upsert=True): a matching document is updated
MatchCourseProgress(i) ==
    LET r == in_flight[i]
        total_modules == Len(r.course[1].modules)
        matching == {k \in 1..Len(course_progress) :
                        /\ course_progress[k].user_access_key = r.user
                        /\ course_progress[k].course_id = r.course_id}
    IN  /\ r.pc = "upsert_course_progress"
        /\ IF matching = {}
           THEN /\ goes_on(i, [r EXCEPT !.pc = "insert_course_progress"])
                /\ UNCHANGED <<course_progress, last>>
           ELSE /\ course_progress' =
                     [course_progress EXCEPT ![first_match(matching)] =
                         course_progress_set(@, total_modules, r.completed_count,
                             progress_percentage(r.completed_count, total_modules),
                             r.overall_score, r.now)]
                /\ returns(i)
        /\ UNCHANGED <<courses, module_progress, quiz_attempts, clock, uuid, access_keys, users>>

\* ... and when none matched, the document is inserted
InsertCourseProgress(i) ==
    LET r == in_flight[i]
        total_modules == Len(r.course[1].modules)
    IN  /\ r.pc = "insert_course_progress"
        /\ course_progress' =
              Append(course_progress,
                     course_progress_inserted(r.user, r.course_id, total_modules,
                         r.completed_count,
                         progress_percentage(r.completed_count, total_modules),
                         r.overall_score, r.now))
        /\ returns(i)
        /\ UNCHANGED <<courses, module_progress, quiz_attempts, clock, uuid, access_keys, users>>

DoStartCompleteModule ==
    \E r \in OverlapRequests : StartCompleteModule(r[1], r[2], r[3])

OverlapNext ==
    \/ DoStartCompleteModule
    \/ \E i \in 1..Len(in_flight) : MatchModuleProgress(i)
    \/ \E i \in 1..Len(in_flight) : InsertModuleProgress(i)
    \/ \E i \in 1..Len(in_flight) : GetCourse(i)
    \/ \E i \in 1..Len(in_flight) : CountDocuments(i)
    \/ \E i \in 1..Len(in_flight) : Aggregate(i)
    \/ \E i \in 1..Len(in_flight) : MatchCourseProgress(i)
    \/ \E i \in 1..Len(in_flight) : InsertCourseProgress(i)

OverlapSpec == OverlapInit /\ [][OverlapNext]_vars

-----------------------------------------------------------------------------
(* Overlapping submissions: submit_quiz awaits get_course, grades, awaits the
   insert of the attempt and then awaits update_module_progress. *)

\* submissions of k1 for the quiz of module 1: one that fails, one that passes
RaceSubmissions ==
    {<<"k1", "c1", 1, "z1", answers>> :
        answers \in {<<Answer(Value("q1"), Value(<<"B">>), Absent)>>,
                     <<Answer(Value("q1"), Value(<<"A">>), Absent),
                       Answer(Value("q2"), Value(<<"B">>), Absent)>>}}

\* complete_module requests of k1 for the module without a quiz
RaceCompletions == {<<"k1", "c1", 2>>}

\* CourseService.submit_quiz up to its second await: the course is read, the
\* answers are graded and the attempt is built
StartSubmitQuiz(user, course_id, module_id, quiz_id, answers) ==
    LET course == get_course(course_id)
        quiz == IF course = <<>> THEN <<>> ELSE find_quiz(course[1], module_id, quiz_id)
        Req(ret) == Request("submit_quiz", user, course_id, module_id, quiz_id, answers, ret)
    IN  IF course = <<>> THEN
          /\ last' = Req(ErrorResult("Course not found"))
          /\ UNCHANGED <<courses, module_progress, course_progress, quiz_attempts, clock, uuid, in_flight, access_keys, users>>
        ELSE IF quiz = <<>> THEN
          /\ last' = Request("submit_quiz", "", course_id, module_id, quiz_id, <<>>,
                             ErrorResult("Quiz not found"))
          /\ UNCHANGED <<courses, module_progress, course_progress, quiz_attempts, clock, uuid, in_flight, access_keys, users>>
        ELSE IF \E i \in 1..Len(answers) : answer_raises(quiz[1], answers[i]) THEN
          /\ last' = Request("submit_quiz", "", course_id, module_id, quiz_id, <<>>, Raised)
          /\ UNCHANGED <<courses, module_progress, course_progress, quiz_attempts, clock, uuid, in_flight, access_keys, users>>
        ELSE
          LET total == total_points(quiz[1])
              awards == awarded(quiz[1], answers)
              earned_points == SumSeq(awards)
              score == score_percentage(earned_points, total)
              pass == passed(score, quiz[1].passing_score)
              result == [kind |-> "result", score |-> score, max_score |-> total,
                         earned_points |-> earned_points, passed |-> pass,
                         passing_score |-> quiz[1].passing_score, awards |-> awards]
          IN  /\ clock < MaxClock
              /\ in_flight' =
                    Append(in_flight,
                           [InFlight(user, course_id, module_id, pass, <<score>>, clock)
                              EXCEPT !.pc = "insert_quiz_attempt",
                                     !.returning = Req(result)])
              /\ clock' = clock + 1
              /\ UNCHANGED <<courses, module_progress, course_progress, quiz_attempts,
                             uuid, access_keys, users, last>>

\* await self.db.quiz_attempts.insert_one(attempt); update_module_progress is
\* entered and builds progress_data with the time read now
InsertQuizAttempt(i) ==
    LET r == in_flight[i]
        q == r.returning
    IN  /\ r.pc = "insert_quiz_attempt"
        /\ quiz_attempts' =
              Append(quiz_attempts,
                     QuizAttempt(r.user, r.course_id, r.module_id, q.quiz_id, q.answers,
                                 q.ret.score, q.ret.max_score, q.ret.passed, r.now))
        /\ goes_on(i, [r EXCEPT !.pc = "upsert_module_progress", !.now = clock])
        /\ UNCHANGED <<courses, module_progress, course_progress, clock, uuid, access_keys, users, last>>

DoStartSubmitQuiz ==
    \E r \in RaceSubmissions : StartSubmitQuiz(r[1], r[2], r[3], r[4], r[5])

DoStartCompletion ==
    \E r \in RaceCompletions : StartCompleteModule(r[1], r[2], r[3])

RaceNext ==
    \/ DoStartSubmitQuiz
    \/ DoStartCompletion
    \/ \E i \in 1..Len(in_flight) : InsertQuizAttempt(i)
    \/ \E i \in 1..Len(in_flight) : MatchModuleProgress(i)
    \/ \E i \in 1..Len(in_flight) : InsertModuleProgress(i)
    \/ \E i \in 1..Len(in_flight) : GetCourse(i)
    \/ \E i \in 1..Len(in_flight) : CountDocuments(i)
    \/ \E i \in 1..Len(in_flight) : Aggregate(i)
    \/ \E i \in 1..Len(in_flight) : MatchCourseProgress(i)
    \/ \E i \in 1..Len(in_flight) : InsertCourseProgress(i)

RaceSpec == OverlapInit /\ [][RaceNext]_vars

-----------------------------------------------------------------------------
(* Faults: a store call of a request raises, the writes made before it stay,
   and the exception leaves the handler.  Requests run one after another. *)

\* a store call raised after this many writes of the request
Faulted(writes) == [kind |-> "raised", writes |-> writes]

\* (variant: the ModuleProgress upsert comes before the insert of the attempt)
writes_of_submit_quiz_progress_first(attempt, pass, score, writes) ==
    /\ quiz_attempts' = IF writes >= 2 THEN Append(quiz_attempts, attempt)
                        ELSE quiz_attempts
    /\ module_progress' =
          IF writes >= 1
          THEN upsert_module_progress(module_progress, attempt.user_access_key,
                   attempt.course_id, attempt.module_id, pass, score, clock)
          ELSE module_progress
    /\ course_progress' =
          IF writes >= 3
          THEN update_course_progress(module_progress', course_progress,
                   attempt.user_access_key, attempt.course_id, clock)
          ELSE course_progress

\* the first writes of a graded submit_quiz, in the order of the code: the
\* insert of the attempt, the ModuleProgress upsert, the CourseProgress upsert
writes_of_submit_quiz(attempt, pass, score, writes) ==
    /\ quiz_attempts' = IF writes >= 1 THEN Append(quiz_attempts, attempt)
                        ELSE quiz_attempts
    /\ module_progress' =
          IF writes >= 2
          THEN upsert_module_progress(module_progress, attempt.user_access_key,
                   attempt.course_id, attempt.module_id, pass, score, clock)
          ELSE module_progress
    /\ course_progress' =
          IF writes >= 3
          THEN update_course_progress(module_progress', course_progress,
                   attempt.user_access_key, attempt.course_id, clock)
          ELSE course_progress

\* a submit_quiz that located its quiz and graded the answers, and in which
\* a later store call raised
FaultedSubmitQuiz(user, course_id, module_id, quiz_id, answers, writes) ==
    LET course == get_course(course_id)
        quiz == IF course = <<>> THEN <<>> ELSE find_quiz(course[1], module_id, quiz_id)
    IN  /\ quiz # <<>>
        /\ \A i \in 1..Len(answers) : ~answer_raises(quiz[1], answers[i])
        /\ clock < MaxClock
        /\ LET total == total_points(quiz[1])
               score == score_percentage(SumSeq(awarded(quiz[1], answers)), total)
               pass == passed(score, quiz[1].passing_score)
               attempt == QuizAttempt(user, course_id, module_id, quiz_id, answers,
                                      score, total, pass, clock)
           IN  writes_of_submit_quiz(attempt, pass, <<score>>, writes)
        /\ clock' = clock + 1
        /\ last' = Request("submit_quiz", user, course_id, module_id, quiz_id, answers,
                           Faulted(writes))
        /\ UNCHANGED <<courses, uuid, in_flight, access_keys, users>>

\* a complete_module in which a store call of update_module_progress raised
FaultedCompleteModule(user, course_id, module_id, writes) ==
    /\ clock < MaxClock
    /\ module_progress' =
          IF writes >= 1
          THEN upsert_module_progress(module_progress, user, course_id, module_id,
                                      TRUE, <<>>, clock)
          ELSE module_progress
    /\ course_progress' =
          IF writes >= 2
          THEN update_course_progress(module_progress', course_progress, user,
                                      course_id, clock)
          ELSE course_progress
    /\ clock' = clock + 1
    /\ last' = Request("complete_module", user, course_id, module_id, "", <<>>,
                       Faulted(writes))
    /\ UNCHANGED <<courses, quiz_attempts, uuid, in_flight, access_keys, users>>

DoFaultedSubmitQuiz ==
    \E r \in RaceSubmissions : \E writes \in 0..3 :
       FaultedSubmitQuiz(r[1], r[2], r[3], r[4], r[5], writes)

DoFaultedCompleteModule ==
    \E r \in OverlapRequests : \E writes \in 0..2 :
       FaultedCompleteModule(r[1], r[2], r[3], writes)

DoCompleteAfterFault ==
    \E r \in OverlapRequests : CompleteModule(r[1], r[2], r[3])

DoSubmitAfterFault ==
    \E r \in RaceSubmissions : SubmitQuiz(r[1], r[2], r[3], r[4], r[5])

FaultNext ==
    \/ DoFaultedSubmitQuiz
    \/ DoFaultedCompleteModule
    \/ DoCompleteAfterFault
    \/ DoSubmitAfterFault
    \/ DoDeleteModule

FaultSpec == OverlapInit /\ [][FaultNext]_vars

-----------------------------------------------------------------------------
(* Access keys: validate_access_key, one store call at a time *)

AccessKey(key, is_active, expires_at, usage_count, max_usage, course_ids) ==
    [key |-> key, is_active |-> is_active, expires_at |-> expires_at,
     usage_count |-> usage_count, max_usage |-> max_usage, course_ids |-> course_ids]

User(access_key, now) ==
    [access_key |-> access_key, created_at |-> now, last_login |-> <<now>>]

\* AccessKeyValidation: success and, when there is one, the token, which
\* carries the access key as its subject
AccessKeyValidation(success, token) ==
    [kind |-> "validation", success |-> success, token |-> token]

\* the keys a validate-key request may carry: the stored one and an unknown one
KeyRequests == {"k1", "k0"}

\* the stored key: active or not, without expiry or expiring after time 0,
\* without a limit or limited to 1 or 2 uses, used at most once and never
\* more often than its limit allows
StoredKeys ==
    {AccessKey("k1", is_active, expires_at, usage_count, max_usage, <<>>) :
        is_active \in BOOLEAN, expires_at \in {<<>>, <<0>>},
        usage_count \in 0..1, max_usage \in {<<>>, <<1>>, <<2>>}}

KeyInit ==
    /\ courses = <<[id |-> "c1", modules |-> <<>>]>>
    /\ module_progress = <<>>
    /\ course_progress = <<>>
    /\ quiz_attempts = <<>>
    /\ clock = 0
    /\ uuid = 0
    /\ last = NoRequest
    /\ in_flight = <<>>
    /\ \E k \in StoredKeys :
          /\ access_keys = <<k>>
          /\ users = IF k.usage_count = 0 THEN <<>> ELSE <<User(k.key, 0)>>

\* the request returns an AccessKeyValidation
validated(key, success) ==
    last' = Request("validate_key", key, "", 0, "", <<>>,
                    AccessKeyValidation(success, IF success THEN <<key>> ELSE <<>>))

\* access_key_obj.max_usage and access_key_obj.usage_count >= access_key_obj.max_usage
usage_limit_reached(access_key_obj) ==
    /\ access_key_obj.max_usage # <<>>
    /\ access_key_obj.max_usage[1] # 0
    /\ access_key_obj.usage_count >= access_key_obj.max_usage[1]

\* access_key_obj.expires_at and access_key_obj.expires_at < datetime.now(timezone.utc)
expired(access_key_obj, now) ==
    access_key_obj.expires_at # <<>> /\ access_key_obj.expires_at[1] < now

\* validate_access_key up to its second await: the key is looked up among the
\* active ones and its expiry and its usage limit are checked
FindAccessKey(key) ==
    LET matching == {k \in 1..Len(access_keys) :
                        access_keys[k].key = key /\ access_keys[k].is_active}
    IN  /\ clock < MaxClock
        /\ clock' = clock + 1
        /\ IF matching = {}
           THEN validated(key, FALSE) /\ UNCHANGED in_flight
           ELSE IF expired(access_keys[first_match(matching)], clock)
           THEN validated(key, FALSE) /\ UNCHANGED in_flight
           ELSE IF usage_limit_reached(access_keys[first_match(matching)])
           THEN validated(key, FALSE) /\ UNCHANGED in_flight
           ELSE /\ in_flight' = Append(in_flight,
                                       [key |-> key, pc |-> "inc_usage_count", now |-> clock])
                /\ UNCHANGED last
        /\ UNCHANGED <<courses, module_progress, course_progress, quiz_attempts, uuid,
                       access_keys, users>>

\* await db.access_keys.update_one({"key": ...}, {"$inc": {"usage_count": 1}})
IncUsageCount(i) ==
    LET r == in_flight[i]
        matching == {k \in 1..Len(access_keys) : access_keys[k].key = r.key}
    IN  /\ r.pc = "inc_usage_count"
        /\ access_keys' =
              IF matching = {} THEN access_keys
              ELSE [access_keys EXCEPT ![first_match(matching)].usage_count = @ + 1]
        /\ goes_on(i, [r EXCEPT !.pc = "find_user"])
        /\ UNCHANGED <<courses, module_progress, course_progress, quiz_attempts, clock,
                       uuid, last, users>>

\* user_doc = await db.users.find_one({"access_key": ...}); last_login is read
FindUser(i) ==
    LET r == in_flight[i]
    IN  /\ r.pc = "find_user"
        /\ goes_on(i, [r EXCEPT !.pc = IF \E k \in 1..Len(users) :
                                              users[k].access_key = r.key
                                       THEN "update_user" ELSE "insert_user",
                                !.now = clock])
        /\ UNCHANGED <<courses, module_progress, course_progress, quiz_attempts, clock,
                       uuid, last, access_keys, users>>

\* await db.users.update_one(..., {"$set": {"last_login": ...}}); the token is
\* made and the validation returned
UpdateUser(i) ==
    LET r == in_flight[i]
        matching == {k \in 1..Len(users) : users[k].access_key = r.key}
    IN  /\ r.pc = "update_user"
        /\ users' = IF matching = {} THEN users
                    ELSE [users EXCEPT ![first_match(matching)].last_login = <<r.now>>]
        /\ leaves(i)
        /\ validated(r.key, TRUE)
        /\ UNCHANGED <<courses, module_progress, course_progress, quiz_attempts, clock,
                       uuid, access_keys>>

\* await db.users.insert_one(user_dict); the token is made and the validation
\* returned
InsertUser(i) ==
    LET r == in_flight[i]
    IN  /\ r.pc = "insert_user"
        /\ users' = Append(users, User(r.key, r.now))
        /\ leaves(i)
        /\ validated(r.key, TRUE)
        /\ UNCHANGED <<courses, module_progress, course_progress, quiz_attempts, clock,
                       uuid, access_keys>>

DoFindAccessKey == \E key \in KeyRequests : FindAccessKey(key)

KeyNext ==
    \/ DoFindAccessKey
    \/ \E i \in 1..Len(in_flight) : IncUsageCount(i)
    \/ \E i \in 1..Len(in_flight) : FindUser(i)
    \/ \E i \in 1..Len(in_flight) : UpdateUser(i)
    \/ \E i \in 1..Len(in_flight) : InsertUser(i)

KeySpec == KeyInit /\ [][KeyNext]_vars

-----------------------------------------------------------------------------
(* Access to courses: the routes of a user, who is known by the access key
   that get_current_user takes from the token *)

HttpResponse(status, body) == [kind |-> "http", status |-> status, body |-> body]

\* db.access_keys.find_one({"key": current_user})
find_access_key(current_user) ==
    find_one(access_keys, {k \in 1..Len(access_keys) : access_keys[k].key = current_user})

\* the ids of the courses get_courses(status=CourseStatus.published) returns
published_courses ==
    [k \in 1..Len(SelectSeq(courses, LAMBDA c : c.status = "published")) |->
        SelectSeq(courses, LAMBDA c : c.status = "published")[k].id]

\* server.get_user_courses
GetUserCourses(current_user) ==
    LET access_key_doc == find_access_key(current_user)
        Req(ret) == Request("get_user_courses", current_user, "", 0, "", <<>>, ret)
    IN  /\ last' =
              IF access_key_doc = <<>> THEN Req(HttpResponse(404, <<>>))
              ELSE IF access_key_doc[1].course_ids # <<>>
              THEN Req(HttpResponse(200,
                          SelectSeq(published_courses,
                                    LAMBDA id : id \in Range(access_key_doc[1].course_ids))))
              ELSE Req(HttpResponse(200, published_courses))
        /\ UNCHANGED <<courses, module_progress, course_progress, quiz_attempts, clock,
                       uuid, in_flight, access_keys, users>>

\* server.get_course_detail
GetCourseDetail(current_user, course_id) ==
    LET course == get_course(course_id)
        access_key_doc == find_access_key(current_user)
        Req(ret) == Request("get_course_detail", current_user, course_id, 0, "", <<>>, ret)
    IN  /\ last' =
              IF course = <<>> \/ course[1].status # "published"
              THEN Req(HttpResponse(404, <<>>))
              ELSE IF /\ access_key_doc # <<>>
                      /\ access_key_doc[1].course_ids # <<>>
                      /\ course_id \notin Range(access_key_doc[1].course_ids)
              THEN Req(HttpResponse(403, <<>>))
              ELSE Req(HttpResponse(200, <<course_id>>))
        /\ UNCHANGED <<courses, module_progress, course_progress, quiz_attempts, clock,
                       uuid, in_flight, access_keys, users>>

\* c1 is a draft or published, and the key k1 is assigned c1 or c2
AccessInit ==
    /\ \E course_status \in {"draft", "published"} :
          courses = <<[id |-> "c1", modules |-> <<>>, status |-> course_status]>>
    /\ module_progress = <<>>
    /\ course_progress = <<>>
    /\ quiz_attempts = <<>>
    /\ clock = 0
    /\ uuid = 0
    /\ last = NoRequest
    /\ in_flight = <<>>
    /\ \E course_id \in {"c1", "c2"} :
          access_keys = <<AccessKey("k1", TRUE, <<>>, 1, <<>>, <<course_id>>)>>
    /\ users = <<User("k1", 0)>>

DoGetUserCourses == \E current_user \in {"k1", "k2"} : GetUserCourses(current_user)

DoGetCourseDetail ==
    \E current_user \in {"k1", "k2"} : \E course_id \in {"c1", "c2"} :
       GetCourseDetail(current_user, course_id)

AccessNext ==
    \/ DoGetUserCourses
    \/ DoGetCourseDetail
    \/ DoCompleteModule
    \/ DoSubmitQuiz
    \/ DoAddModule
    \/ DoDeleteModule

AccessSpec == AccessInit /\ [][AccessNext]_vars

-----------------------------------------------------------------------------
(* Vocabulary of the properties *)

\* the last request was a submission that was graded
Graded == last.op = "submit_quiz" /\ last.ret.kind = "result"

\* the quiz that submission was graded against
GradedQuiz ==
    LET course == CHOOSE c \in Range(courses) : c.id = last.course_id
        module == CHOOSE m \in Range(course.modules) : m.id = last.module_id
    IN  module.quiz[1]

Matches(quiz, answer) ==
    /\ answer.question_id.kind = "value"
    /\ \E j \in 1..Len(quiz.questions) : quiz.questions[j].id = answer.question_id.val

\* the question an answer is for
QuestionOf(quiz, answer) ==
    LET js == {j \in 1..Len(quiz.questions) : quiz.questions[j].id = answer.question_id.val}
    IN  quiz.questions[CHOOSE j \in js : \A k \in js : j <= k]

FlaggedPositions(question) == {j \in 1..Len(question.options) : question.options[j].is_correct}

FlaggedIds(question) == {question.options[j].id : j \in FlaggedPositions(question)}

\* the option ids an answer selects, none when it carries no selection
SelectedList(answer) ==
    IF answer.selected_options.kind = "value" THEN answer.selected_options.val ELSE <<>>

SubmittedText(answer) ==
    IF answer.text_answer.kind = "value" THEN answer.text_answer.val ELSE <<>>

\* the answers of the graded submission that match a question of one of the types
AnswersOfType(types) ==
    {i \in 1..Len(last.answers) :
        /\ Matches(GradedQuiz, last.answers[i])
        /\ QuestionOf(GradedQuiz, last.answers[i]).type \in types}

PointsIf(condition, question) == IF condition THEN question.points ELSE 0

\* lower-casing and trimming, stated on positions
LowerCased(text) ==
    [i \in 1..Len(text) |->
        IF text[i] \in {"P", "A", "R", "I", "S"}
        THEN [c \in {"P", "A", "R", "I", "S"} |->
                 CASE c = "P" -> "p" [] c = "A" -> "a" [] c = "R" -> "r"
                   [] c = "I" -> "i" [] OTHER -> "s"][text[i]]
        ELSE text[i]]

Trimmed(text) ==
    LET inked == {i \in 1..Len(text) : text[i] \notin {" ", "\t", "\n"}}
    IN  IF inked = {} THEN <<>>
        ELSE SubSeq(text, CHOOSE i \in inked : \A k \in inked : i <= k,
                          CHOOSE i \in inked : \A k \in inked : i >= k)

Normalized(text) == Trimmed(LowerCased(text))

RECURSIVE PointsOver(_, _)
PointsOver(quiz, positions) ==
    IF positions = {} THEN 0
    ELSE LET j == CHOOSE k \in positions : TRUE
         IN  quiz.questions[j].points + PointsOver(quiz, positions \ {j})

AllPoints(quiz) == PointsOver(quiz, 1..Len(quiz.questions))

-----------------------------------------------------------------------------
(* Grading properties *)

\* C2: a graded answer to a multiple_choice question adds the question's points
\* exactly when the set of selected option ids equals the set of ids of the
\* options flagged correct, and adds 0 otherwise.
C2_MultipleChoiceSetEquality ==
    Graded =>
      \A i \in AnswersOfType({"multiple_choice"}) :
         LET answer == last.answers[i]
             question == QuestionOf(GradedQuiz, answer)
         IN  last.ret.awards[i] =
               PointsIf(Range(SelectedList(answer)) = FlaggedIds(question), question)

\* correct set {A, B}: {A, B} earned the points, {A, B, C} earned nothing
C2_Witness ==
    /\ Graded
    /\ Len(last.answers) = 2
    /\ AnswersOfType({"multiple_choice"}) = {1, 2}
    /\ FlaggedIds(GradedQuiz.questions[1]) = {"A", "B"}
    /\ SelectedList(last.answers[1]) = <<"B", "A">>
    /\ SelectedList(last.answers[2]) = <<"A", "B", "C">>
    /\ last.ret.awards = <<2, 0>>
    /\ last.ret.earned_points = 2

\* C3 as stated: a graded answer to a single_choice or true_false question adds
\* the points exactly when one option id is selected and it is the question's
\* unique correct option.
C3_UniqueCorrectOption ==
    Graded =>
      \A i \in AnswersOfType({"single_choice", "true_false"}) :
         LET answer == last.answers[i]
             question == QuestionOf(GradedQuiz, answer)
         IN  last.ret.awards[i] =
               PointsIf(/\ Len(SelectedList(answer)) = 1
                        /\ FlaggedIds(question) = {SelectedList(answer)[1]},
                        question)

\* C3 amended: single_choice adds the points exactly when one id is selected and
\* it is among the options flagged correct; true_false exactly when one id is
\* selected and it is the first option flagged correct (null when none is).
C3_FlaggedOption ==
    Graded =>
      \A i \in AnswersOfType({"single_choice", "true_false"}) :
         LET answer == last.answers[i]
             question == QuestionOf(GradedQuiz, answer)
             flagged == FlaggedPositions(question)
             first_flagged == IF flagged = {} THEN NoneId
                              ELSE question.options[CHOOSE j \in flagged :
                                                       \A k \in flagged : j <= k].id
         IN  last.ret.awards[i] =
               PointsIf(/\ Len(SelectedList(answer)) = 1
                        /\ IF question.type = "single_choice"
                           THEN SelectedList(answer)[1] \in FlaggedIds(question)
                           ELSE SelectedList(answer)[1] = first_flagged,
                        question)

\* a single_choice question with two options flagged correct paid for one of them
C3_Witness ==
    /\ Graded
    /\ Len(last.answers) = 1
    /\ AnswersOfType({"single_choice"}) = {1}
    /\ FlaggedIds(GradedQuiz.questions[1]) = {"A", "B"}
    /\ SelectedList(last.answers[1]) = <<"B">>
    /\ last.ret.awards = <<2>>

\* C4: a graded answer to a text_input question adds the points exactly when the
\* submitted text, lower-cased and trimmed, equals the reference answer
\* lower-cased and trimmed.
C4_TextNormalized ==
    Graded =>
      \A i \in AnswersOfType({"text_input"}) :
         LET answer == last.answers[i]
             question == QuestionOf(GradedQuiz, answer)
         IN  last.ret.awards[i] =
               PointsIf(Normalized(SubmittedText(answer)) =
                        Normalized(question.correct_answer.val), question)

\* reference "Paris": " Paris " earned the points, "Pariss" earned nothing
C4_Witness ==
    /\ Graded
    /\ Len(last.answers) = 2
    /\ AnswersOfType({"text_input"}) = {1, 2}
    /\ GradedQuiz.questions[1].correct_answer = Value(Paris)
    /\ SubmittedText(last.answers[1]) = ParisPadded
    /\ SubmittedText(last.answers[2]) = Pariss
    /\ last.ret.awards = <<1, 0>>

\* C5: max_score of a grading result is the sum of the points of all questions
\* of the quiz, whatever was answered.
C5_MaxScoreAllQuestions ==
    Graded => last.ret.max_score = AllPoints(GradedQuiz)

\* two questions worth 3 points, one answered wrongly and one not at all
C5_Witness ==
    /\ Graded
    /\ Len(GradedQuiz.questions) = 2
    /\ Len(last.answers) = 1
    /\ last.ret.earned_points = 0
    /\ last.ret.max_score = 3
    /\ {q.type : q \in Range(GradedQuiz.questions)} = {"multiple_choice", "essay"}

\* C6: score = earned_points / max_score * 100 when max_score > 0, and 0 when
\* max_score = 0.
C6_ScoreFormula ==
    Graded =>
      IF last.ret.max_score > 0
      THEN /\ last.ret.score.d > 0
           /\ last.ret.score.n * last.ret.max_score
                = last.ret.earned_points * 100 * last.ret.score.d
      ELSE last.ret.score = [n |-> 0, d |-> 1]

\* a quiz whose only question is worth 0 points was answered right: score 0
C6_Witness ==
    /\ Graded
    /\ Len(GradedQuiz.questions) = 1
    /\ last.ret.max_score = 0
    /\ AnswersOfType({"text_input"}) = {1}
    /\ Normalized(SubmittedText(last.answers[1])) = ParisLower
    /\ GradedQuiz.questions[1].correct_answer = Value(ParisUpper)
    /\ last.ret.score = [n |-> 0, d |-> 1]

\* C7: passed holds exactly when the score is at least the passing score; with
\* max_score = 0 the score is 0 and passed is (0 >= passing_score).
C7_PassedIffScoreReachesPassing ==
    Graded =>
      /\ last.ret.passing_score = GradedQuiz.passing_score
      /\ last.ret.passed <=>
           last.ret.score.n >= GradedQuiz.passing_score * last.ret.score.d
      /\ last.ret.max_score > 0 =>
           (last.ret.passed <=>
              last.ret.earned_points * 100 >= GradedQuiz.passing_score * last.ret.max_score)
      /\ last.ret.max_score = 0 =>
           /\ last.ret.score.n = 0
           /\ last.ret.passed <=> (0 >= GradedQuiz.passing_score)

\* one of two points earned against a passing score of 50: passed
C7_Witness ==
    /\ Graded
    /\ last.ret.max_score = 2
    /\ last.ret.earned_points = 1
    /\ last.ret.passing_score = 50
    /\ last.ret.passed

\* C8 as stated: an answer to an essay question adds nothing, the essay's points
\* count in max_score, and a quiz with an essay question worth points never
\* scores 100.
C8_EssayNeverFullScore ==
    Graded =>
      /\ \A i \in AnswersOfType({"essay"}) : last.ret.awards[i] = 0
      /\ (\E q \in Range(GradedQuiz.questions) : q.type = "essay" /\ q.points > 0) =>
            /\ last.ret.max_score = AllPoints(GradedQuiz)
            /\ last.ret.score.n < 100 * last.ret.score.d

-----------------------------------------------------------------------------
(* Progress properties *)

\* the last request ran update_module_progress to its end
ProgressUpdated == last.op = "complete_module" \/ Graded

\* the module_progress records of a key and a course, by position
RecordsOf(user, course_id) ==
    {i \in 1..Len(module_progress) :
        /\ module_progress[i].user_access_key = user
        /\ module_progress[i].course_id = course_id}

CompletedOf(user, course_id) ==
    {i \in RecordsOf(user, course_id) : module_progress[i].completed}

ScoredOf(user, course_id) ==
    {i \in CompletedOf(user, course_id) : module_progress[i].score # <<>>}

RECURSIVE ScoreTotal(_)
ScoreTotal(positions) ==
    IF positions = {} THEN FracOfInt(0)
    ELSE LET i == CHOOSE k \in positions : TRUE
         IN  FracAdd(module_progress[i].score[1], ScoreTotal(positions \ {i}))

MeanScoreOf(user, course_id) ==
    LET scored == ScoredOf(user, course_id)
    IN  IF scored = {} THEN <<>>
        ELSE <<Frac(ScoreTotal(scored).n, ScoreTotal(scored).d * Cardinality(scored))>>

\* the number of modules the course has now, 0 for a course that is not stored
ModuleCountOf(course_id) ==
    IF \E c \in Range(courses) : c.id = course_id
    THEN Len((CHOOSE c \in Range(courses) : c.id = course_id).modules)
    ELSE 0

CourseProgressOf(user, course_id) ==
    {i \in 1..Len(course_progress) :
        /\ course_progress[i].user_access_key = user
        /\ course_progress[i].course_id = course_id}

\* a course_progress document agrees with the course and the module_progress records
AgreesWithRecords(d) ==
    /\ d.total_modules = ModuleCountOf(d.course_id)
    /\ d.completed_modules = Cardinality(CompletedOf(d.user_access_key, d.course_id))
    /\ d.progress_percentage.n * d.total_modules
         = d.completed_modules * 100 * d.progress_percentage.d
    /\ d.overall_score = MeanScoreOf(d.user_access_key, d.course_id)

\* C1 as stated: whenever update_module_progress has completed, the stored
\* CourseProgress record of that key and course agrees with the course's current
\* module list and the current ModuleProgress records.
C1_MaterializedView ==
    ProgressUpdated =>
      \A i \in CourseProgressOf(last.user, last.course_id) :
         AgreesWithRecords(course_progress[i])

\* C1 amended: whenever update_module_progress has completed for a course that
\* is stored and has at least one module, the CourseProgress record of that key
\* and course exists and agrees with the module list and the ModuleProgress
\* records.
C1_MaterializedViewOfNonEmptyCourse ==
    (ProgressUpdated /\ ModuleCountOf(last.course_id) >= 1) =>
      /\ CourseProgressOf(last.user, last.course_id) # {}
      /\ \A i \in CourseProgressOf(last.user, last.course_id) :
            AgreesWithRecords(course_progress[i])

\* after a passed quiz on one of two modules the record shows 1 of 2 and a score
C1_Witness ==
    /\ Graded
    /\ ModuleCountOf(last.course_id) = 2
    /\ \E i \in CourseProgressOf(last.user, last.course_id) :
          /\ course_progress[i].completed_modules = 1
          /\ course_progress[i].progress_percentage = FracOfInt(50)
          /\ course_progress[i].overall_score # <<>>

\* C9: after a graded submission the ModuleProgress record of (user, course,
\* module) has completed = passed and score = the score of that submission,
\* whatever it held before.
C9_ModuleProgressFollowsSubmission ==
    Graded =>
      LET records == {i \in RecordsOf(last.user, last.course_id) :
                         module_progress[i].module_id = last.module_id}
      IN  /\ records # {}
          /\ \A i \in records :
                /\ module_progress[i].completed = last.ret.passed
                /\ module_progress[i].score = <<last.ret.score>>

\* a failed re-attempt after an earlier pass: not completed, the new score 0
C9_Witness ==
    /\ Graded
    /\ ~last.ret.passed
    /\ \E i \in RecordsOf(last.user, last.course_id) :
          /\ module_progress[i].module_id = last.module_id
          /\ module_progress[i].completed_at # <<>>
          /\ ~module_progress[i].completed
          /\ module_progress[i].score = <<FracOfInt(0)>>

\* the course is not stored, or has no module with the id, or that module's
\* quiz is not the quiz asked for
NoSuchQuiz(course_id, module_id, quiz_id) ==
    \A c \in Range(courses) : c.id = course_id =>
       \A m \in Range(c.modules) : m.id = module_id =>
          m.quiz = <<>> \/ m.quiz[1].id # quiz_id

\* C10: a submission for a course, module or quiz that cannot be located returns
\* an error result, does not raise, and leaves quiz_attempts, module_progress
\* and course_progress as they were.  (Every step that ends with a submit_quiz
\* request in last is a step of SubmitQuiz, which leaves courses alone.)
C10_NotFoundWritesNothing ==
    [][(/\ last'.op = "submit_quiz"
        /\ NoSuchQuiz(last'.course_id, last'.module_id, last'.quiz_id)) =>
           /\ last'.ret.kind = "error"
           /\ UNCHANGED <<quiz_attempts, module_progress, course_progress>>]_vars

\* a quiz id that is not the module's quiz was refused while progress was stored
C10_Witness ==
    /\ last.op = "submit_quiz"
    /\ last.ret = ErrorResult("Quiz not found")
    /\ last.quiz_id = "z2"
    /\ ~NoSuchQuiz("c1", last.module_id, "z1")
    /\ module_progress # <<>>
    /\ course_progress # <<>>

-----------------------------------------------------------------------------
(* Quiz attempts *)

\* a submission whose course, module and quiz were found
Located == last.op = "submit_quiz" /\ last.ret.kind # "error"

\* C11 as stated: every submission that locates its quiz appends exactly one
\* record to quiz_attempts, with an empty answers field; no other step changes
\* quiz_attempts, and no step changes or removes a record already there.
C11_EveryLocatedSubmissionStored ==
    [][IF Located'
       THEN /\ Len(quiz_attempts') = Len(quiz_attempts) + 1
            /\ SubSeq(quiz_attempts', 1, Len(quiz_attempts)) = quiz_attempts
            /\ quiz_attempts'[Len(quiz_attempts')].answers = <<>>
       ELSE quiz_attempts' = quiz_attempts]_vars

\* C11 for the submissions that end with a result (this much holds): such a
\* submission appends exactly one record, with an empty answers field and the
\* score, max_score and passed of the result; no other step changes
\* quiz_attempts.
C11_GradedAttemptsOnlyGrow ==
    [][IF Graded'
       THEN /\ Len(quiz_attempts') = Len(quiz_attempts) + 1
            /\ SubSeq(quiz_attempts', 1, Len(quiz_attempts)) = quiz_attempts
            /\ LET attempt == quiz_attempts'[Len(quiz_attempts')]
               IN  /\ attempt.answers = <<>>
                   /\ attempt.user_access_key = last'.user
                   /\ attempt.module_id = last'.module_id
                   /\ attempt.quiz_id = last'.quiz_id
                   /\ attempt.score = last'.ret.score
                   /\ attempt.max_score = last'.ret.max_score
                   /\ attempt.passed = last'.ret.passed
       ELSE quiz_attempts' = quiz_attempts]_vars

-----------------------------------------------------------------------------
(* The aggregate after a recompute *)

\* the last request ran the recompute past its early returns
Recomputed == ProgressUpdated /\ ModuleCountOf(last.course_id) >= 1

\* C12: after a recompute for a course with at least one module, the
\* CourseProgress record of (user, course) has completed_modules = the number of
\* ModuleProgress records of (user, course) with completed = true, total_modules
\* = the number of modules of the course, and progress_percentage =
\* completed_modules / total_modules * 100.
C12_CountsAndPercentage ==
    Recomputed =>
      /\ CourseProgressOf(last.user, last.course_id) # {}
      /\ \A i \in CourseProgressOf(last.user, last.course_id) :
            LET d == course_progress[i]
                completed == Cardinality({k \in 1..Len(module_progress) :
                                 /\ module_progress[k].user_access_key = last.user
                                 /\ module_progress[k].course_id = last.course_id
                                 /\ module_progress[k].completed})
                total == ModuleCountOf(last.course_id)
            IN  /\ d.completed_modules = completed
                /\ d.total_modules = total
                /\ d.progress_percentage.d > 0
                /\ d.progress_percentage.n * total = completed * 100 * d.progress_percentage.d

\* two modules, one record completed and one not: 50
C12_Witness ==
    /\ Recomputed
    /\ ModuleCountOf(last.course_id) = 2
    /\ Cardinality(RecordsOf(last.user, last.course_id)) = 2
    /\ Cardinality(CompletedOf(last.user, last.course_id)) = 1
    /\ \E i \in CourseProgressOf(last.user, last.course_id) :
          /\ course_progress[i].total_modules = 2
          /\ course_progress[i].completed_modules = 1
          /\ course_progress[i].progress_percentage = FracOfInt(50)

\* C13: after a recompute, overall_score of the CourseProgress record is the
\* arithmetic mean of score over the ModuleProgress records of (user, course)
\* that are completed and carry a score, and null when there is none: a record
\* that is not completed does not count, and a stored mean gives way to null.
C13_OverallScoreIsMean ==
    Recomputed =>
      \A i \in CourseProgressOf(last.user, last.course_id) :
         LET scored == ScoredOf(last.user, last.course_id)
             mean == course_progress[i].overall_score
         IN  IF scored = {} THEN mean = <<>>
             ELSE /\ Len(mean) = 1
                  /\ mean[1].d > 0
                  /\ mean[1].n * ScoreTotal(scored).d * Cardinality(scored)
                        = ScoreTotal(scored).n * mean[1].d

\* a failed re-attempt after a pass: the only scored record is no longer
\* completed, and the mean stored by the first recompute is null again
C13_Witness ==
    /\ Graded
    /\ ~last.ret.passed
    /\ Len(quiz_attempts) = 2
    /\ quiz_attempts[1].passed
    /\ quiz_attempts[1].user_access_key = last.user
    /\ quiz_attempts[1].module_id = last.module_id
    /\ ModuleCountOf(last.course_id) >= 1
    /\ ScoredOf(last.user, last.course_id) = {}
    /\ \E k \in RecordsOf(last.user, last.course_id) : module_progress[k].score # <<>>
    /\ \E i \in CourseProgressOf(last.user, last.course_id) :
          course_progress[i].overall_score = <<>>

\* a course_progress document without its last_accessed
WithoutLastAccessed(d) == [d EXCEPT !.last_accessed = 0]

\* C14 as stated: a recompute that directly follows a recompute for the same
\* (user, course), the course and the ModuleProgress records being the same,
\* leaves the CourseProgress collection as it was in every field but
\* last_accessed, started_at and completed_at included.
C14_RecomputeIdempotent ==
    [][(/\ last.op = "recompute"
        /\ last'.op = "recompute"
        /\ last'.user = last.user
        /\ last'.course_id = last.course_id
        /\ courses' = courses
        /\ module_progress' = module_progress) =>
           /\ Len(course_progress') = Len(course_progress)
           /\ \A i \in 1..Len(course_progress) :
                 WithoutLastAccessed(course_progress'[i])
                   = WithoutLastAccessed(course_progress[i])]_vars

\* the course is stored and has no modules
HasNoModules(course_id) ==
    \E c \in Range(courses) : c.id = course_id /\ c.modules = <<>>

\* C15: a recompute for a course that has zero modules writes nothing: no
\* CourseProgress record is created and a stored one is left as it is.
C15_NoWriteWithoutModules ==
    [][(ProgressUpdated' /\ HasNoModules(last.course_id)') =>
          course_progress' = course_progress]_vars

\* the module was deleted after its completion: the second completion wrote
\* the ModuleProgress record and left the CourseProgress record of the first
C15_Witness ==
    /\ last.op = "complete_module"
    /\ HasNoModules(last.course_id)
    /\ \E i \in CourseProgressOf(last.user, last.course_id) :
          /\ course_progress[i].total_modules = 1
          /\ \E k \in RecordsOf(last.user, last.course_id) :
                module_progress[k].last_accessed > course_progress[i].last_accessed

\* C16: started_at of a CourseProgress record is the time of the request that
\* inserted it, and no later recompute, completion or submission changes it:
\* every step keeps the stored records in place with their key and started_at,
\* and a record it adds starts at the time of the step.
C16_StartedAtSetOnce ==
    [][/\ Len(course_progress') >= Len(course_progress)
       /\ \A i \in 1..Len(course_progress) :
             /\ course_progress'[i].user_access_key = course_progress[i].user_access_key
             /\ course_progress'[i].course_id = course_progress[i].course_id
             /\ course_progress'[i].started_at = course_progress[i].started_at
       /\ \A i \in (Len(course_progress) + 1)..Len(course_progress') :
             course_progress'[i].started_at = clock]_vars

\* a record inserted at time 0 was recomputed at time 1 and still starts at 0
C16_Witness ==
    /\ ProgressUpdated
    /\ \E i \in CourseProgressOf(last.user, last.course_id) :
          /\ course_progress[i].started_at = 0
          /\ course_progress[i].last_accessed = 1
          /\ course_progress[i].completed_at = <<1>>

-----------------------------------------------------------------------------
(* Overlapping requests *)

\* C17 as stated: in every reachable state, whatever the order and the overlap
\* of the requests, module_progress holds at most one record per
\* (user_access_key, course_id, module_id).
C17_OneRecordPerTriple ==
    \A i, j \in 1..Len(module_progress) :
       (/\ module_progress[i].user_access_key = module_progress[j].user_access_key
        /\ module_progress[i].course_id = module_progress[j].course_id
        /\ module_progress[i].module_id = module_progress[j].module_id) => i = j

-----------------------------------------------------------------------------
(* Module editing *)

StoredIn(stored, course_id) == \E c \in Range(stored) : c.id = course_id

\* the modules of a course in a courses collection
ModulesIn(stored, course_id) == (CHOOSE c \in Range(stored) : c.id = course_id).modules

\* C18: add_module on an existing course appends one module whose order is the
\* number of modules the course had, whatever the request body carried, and
\* leaves the modules already there, and their orders, as they were.
C18_AppendedWithCountAsOrder ==
    [][(last'.op = "add_module" /\ StoredIn(courses, last'.course_id)) =>
          LET before == ModulesIn(courses, last'.course_id)
              after == ModulesIn(courses', last'.course_id)
          IN  /\ last'.ret = Returned(TRUE)
              /\ Len(after) = Len(before) + 1
              /\ SubSeq(after, 1, Len(before)) = before
              /\ after[Len(after)].id = last'.module_id
              /\ after[Len(after)].order = Len(before)]_vars

\* the course had one module, moved to order 2; the body asked for order 0; the
\* module added has order 1
C18_Witness ==
    /\ last.op = "add_module"
    /\ last.ret = Returned(TRUE)
    /\ last.body.order = Value(0)
    /\ LET modules == ModulesIn(courses, last.course_id)
       IN  /\ Len(modules) = 2
           /\ modules[1].order = 2
           /\ modules[2].id = last.module_id
           /\ modules[2].order = 1

\* the positions of the pairs that name a module
NamedAt(module_orders, module_id) ==
    {k \in 1..Len(module_orders) : module_orders[k].id = Value(module_id)}

\* every item of the request carries an id and an order
AllPairs(module_orders) ==
    \A k \in 1..Len(module_orders) :
       module_orders[k].id.kind = "value" /\ module_orders[k].order.kind = "value"

\* C19: reorder_modules with a list of {id, order} pairs on an existing course
\* returns True and leaves every module named by a pair with the order of the
\* last pair naming it, and every other module, and everything else about the
\* modules, as it was: a pair naming no module of the course changes nothing,
\* and no order is refused for being taken.  On a course that is not stored it
\* returns False and writes nothing.
C19_EachPairApplied ==
    [][last'.op = "reorder_modules" =>
          IF ~StoredIn(courses, last'.course_id)
          THEN /\ last'.ret = Returned(FALSE)
               /\ UNCHANGED <<courses, module_progress, course_progress, quiz_attempts>>
          ELSE AllPairs(last'.module_orders) =>
                 LET before == ModulesIn(courses, last'.course_id)
                     after == ModulesIn(courses', last'.course_id)
                     pairs == last'.module_orders
                 IN  /\ last'.ret = Returned(TRUE)
                     /\ Len(courses') = Len(courses)
                     /\ Len(after) = Len(before)
                     /\ \A k \in 1..Len(before) :
                           LET named == NamedAt(pairs, before[k].id)
                               final == CHOOSE n \in named : \A o \in named : n >= o
                           IN  after[k] = IF named = {} THEN before[k]
                                          ELSE [before[k] EXCEPT
                                                   !.order = pairs[final].order.val]]_vars

\* module 2 was named twice and has the order of the second pair, 0, which is
\* also the order module 1 kept
C19_Witness ==
    /\ last.op = "reorder_modules"
    /\ last.ret = Returned(TRUE)
    /\ last.module_orders = <<[id |-> Value(2), order |-> Value(2)],
                              [id |-> Value(2), order |-> Value(0)]>>
    /\ LET modules == ModulesIn(courses, last.course_id)
       IN  /\ Len(modules) = 2
           /\ modules[1].id = 1 /\ modules[1].order = 0
           /\ modules[2].id = 2 /\ modules[2].order = 0

-----------------------------------------------------------------------------
(* Malformed answers *)

\* the answer lacks question_id, or lacks the field its question reads (or
\* carries null there), or its text_input question has no reference answer
Malformed(quiz, answer) ==
    \/ answer.question_id.kind # "value"
    \/ /\ Matches(quiz, answer)
       /\ LET question == QuestionOf(quiz, answer)
          IN  \/ /\ question.type \in {"single_choice", "multiple_choice", "true_false"}
                 /\ answer.selected_options.kind # "value"
              \/ /\ question.type = "text_input"
                 /\ \/ answer.text_answer.kind # "value"
                    \/ question.correct_answer.kind # "value"

\* C20 as stated: every submission to a quiz that exists ends with a result,
\* whatever its answers list holds, and a malformed answer adds 0 points.
C20_MalformedAnswersIgnored ==
    Located =>
      /\ last.ret.kind = "result"
      /\ \A i \in 1..Len(last.answers) :
            Malformed(GradedQuiz, last.answers[i]) => last.ret.awards[i] = 0

-----------------------------------------------------------------------------
(* Orders under add and delete *)

\* C26 as stated: after any sequence of add_module and delete_module calls on a
\* course that started without modules, the order values of its modules are
\* pairwise distinct.
C26_OrdersDistinct ==
    \A c \in Range(courses) :
       \A i, j \in 1..Len(c.modules) :
          c.modules[i].order = c.modules[j].order => i = j

-----------------------------------------------------------------------------
(* Bounds of a grading result *)

\* C27 as stated: every grading result has earned_points <= max_score and a
\* score from 0 to 100, also when several answers are for the same question.
C27_EarnedWithinMax ==
    Graded =>
      /\ last.ret.earned_points <= last.ret.max_score
      /\ last.ret.score.n >= 0
      /\ last.ret.score.n <= 100 * last.ret.score.d

-----------------------------------------------------------------------------
(* Bounds of the aggregate *)

\* C28 as stated: every stored CourseProgress record has completed_modules <=
\* total_modules and progress_percentage <= 100.
C28_CompletedWithinTotal ==
    \A i \in 1..Len(course_progress) :
       /\ course_progress[i].completed_modules <= course_progress[i].total_modules
       /\ course_progress[i].progress_percentage.n
            <= 100 * course_progress[i].progress_percentage.d

\* C29 as stated: a stored CourseProgress record carries completed_at only if
\* its progress_percentage is at least 100.
C29_CompletedAtOnlyWhenComplete ==
    \A i \in 1..Len(course_progress) :
       course_progress[i].completed_at # <<>> =>
          course_progress[i].progress_percentage.n
             >= 100 * course_progress[i].progress_percentage.d

-----------------------------------------------------------------------------
(* Requests for a course that is not stored *)

\* C21 as stated: a request of a course-scoped operation whose course id is not
\* in courses does not raise and leaves every collection as it was.
C21_NothingWrittenForMissingCourse ==
    [][(/\ last'.op \in {"complete_module", "submit_quiz", "add_module",
                         "delete_module", "reorder_modules"}
        /\ ~StoredIn(courses, last'.course_id))
       => /\ last'.ret.kind # "raised"
          /\ UNCHANGED <<courses, module_progress, course_progress, quiz_attempts>>]_vars

-----------------------------------------------------------------------------
(* The attempt limit of a quiz *)

\* the quiz_attempts records of a key for a quiz of a module of a course
AttemptsOf(user, course_id, module_id, quiz_id) ==
    {i \in 1..Len(quiz_attempts) :
        /\ quiz_attempts[i].user_access_key = user
        /\ quiz_attempts[i].course_id = course_id
        /\ quiz_attempts[i].module_id = module_id
        /\ quiz_attempts[i].quiz_id = quiz_id}

\* C30 as stated: for a stored quiz with max_attempts = N, no user has more
\* than N QuizAttempt records for that quiz.
C30_AttemptsWithinLimit ==
    \A c \in Range(courses) : \A m \in Range(c.modules) :
       (m.quiz # <<>> /\ m.quiz[1].max_attempts # <<>>) =>
          \A user \in {"k1", "k2"} :
             Cardinality(AttemptsOf(user, c.id, m.id, m.quiz[1].id))
                <= m.quiz[1].max_attempts[1]

-----------------------------------------------------------------------------
(* Overlapping runs of update_module_progress *)

\* C24: of overlapping submissions for one module the last write wins: every
\* ModuleProgress record with a score carries the completed flag and the score
\* of one stored attempt of its user for its module, never a mix of two.  (The
\* stale aggregate the claim says is reachable is C24_Witness.)
C24_LastWriteWins ==
    \A k \in 1..Len(module_progress) :
       module_progress[k].score # <<>> =>
          \E a \in 1..Len(quiz_attempts) :
             /\ quiz_attempts[a].user_access_key = module_progress[k].user_access_key
             /\ quiz_attempts[a].course_id = module_progress[k].course_id
             /\ quiz_attempts[a].module_id = module_progress[k].module_id
             /\ module_progress[k].score = <<quiz_attempts[a].score>>
             /\ module_progress[k].completed = quiz_attempts[a].passed

\* two runs for modules 1 and 2 of c1 are both over, both records are stored as
\* completed, one of them by a passed submission, and the CourseProgress
\* record counts one completed module
C24_Witness ==
    /\ in_flight = <<>>
    /\ \E k \in CompletedOf("k1", "c1") :
          module_progress[k].module_id = 1 /\ module_progress[k].score # <<>>
    /\ \E k \in CompletedOf("k1", "c1") : module_progress[k].module_id = 2
    /\ Cardinality(CompletedOf("k1", "c1")) = 2
    /\ \E i \in CourseProgressOf("k1", "c1") :
          course_progress[i].completed_modules = 1

-----------------------------------------------------------------------------
(* Faults between the writes of a request *)

\* the last request ran to its end
RanToEnd == (last.op = "complete_module" /\ last.ret.kind = "returned") \/ Graded

\* an earlier submission of the key for the course was cut short: its attempt
\* is stored, and no CourseProgress record of the pair is as old as it
Interrupted(user, course_id) ==
    \E a \in 1..Len(quiz_attempts) :
       /\ quiz_attempts[a].user_access_key = user
       /\ quiz_attempts[a].course_id = course_id
       /\ \A i \in CourseProgressOf(user, course_id) :
             course_progress[i].started_at > quiz_attempts[a].started_at

\* the writes come in the order attempt, ModuleProgress, CourseProgress: a
\* scored record has an attempt with its score, and a CourseProgress record
\* has a ModuleProgress record written at its time or later
WrittenInOrder ==
    /\ \A k \in 1..Len(module_progress) :
          module_progress[k].score # <<>> =>
             \E a \in 1..Len(quiz_attempts) :
                /\ quiz_attempts[a].user_access_key = module_progress[k].user_access_key
                /\ quiz_attempts[a].course_id = module_progress[k].course_id
                /\ quiz_attempts[a].module_id = module_progress[k].module_id
                /\ <<quiz_attempts[a].score>> = module_progress[k].score
    /\ \A i \in 1..Len(course_progress) :
          \E k \in RecordsOf(course_progress[i].user_access_key,
                              course_progress[i].course_id) :
             module_progress[k].last_accessed >= course_progress[i].last_accessed

\* the CourseProgress record of the last request is stored and agrees
RecordAgrees ==
    /\ CourseProgressOf(last.user, last.course_id) # {}
    /\ \A i \in CourseProgressOf(last.user, last.course_id) :
          AgreesWithRecords(course_progress[i])

\* C25 as stated: the writes of submit_quiz come in the order attempt,
\* ModuleProgress, CourseProgress, and after a submission was interrupted the
\* next update_module_progress of the pair that runs to its end leaves a
\* CourseProgress record that agrees with the ModuleProgress records.
C25_RecoveredByNextUpdate ==
    /\ WrittenInOrder
    /\ (RanToEnd /\ Interrupted(last.user, last.course_id)) => RecordAgrees

\* C25, amended: ... the next update_module_progress of the pair that runs to
\* its end for a course that still has at least one module leaves a
\* CourseProgress record that agrees with the ModuleProgress records.
C25_RecoveredWhileModulesLeft ==
    /\ WrittenInOrder
    /\ (/\ RanToEnd
        /\ Interrupted(last.user, last.course_id)
        /\ ModuleCountOf(last.course_id) >= 1) => RecordAgrees

\* a passed submission stored its attempt and the ModuleProgress record at
\* time 0 and no CourseProgress record; the complete_module of time 1 created
\* the record, which counts both modules
C25_Witness ==
    /\ RanToEnd
    /\ Interrupted(last.user, last.course_id)
    /\ ModuleCountOf(last.course_id) >= 1
    /\ \E k \in CompletedOf(last.user, last.course_id) :
          module_progress[k].score # <<>> /\ module_progress[k].last_accessed = 0
    /\ \E i \in CourseProgressOf(last.user, last.course_id) :
          /\ course_progress[i].started_at = 1
          /\ course_progress[i].completed_modules = 2

-----------------------------------------------------------------------------
(* The usage limit of an access key *)

\* C22 as stated: the usage_count of a key whose max_usage is set to N never
\* exceeds N, in any interleaving of validate-key requests.
C22_UsageWithinLimit ==
    \A k \in 1..Len(access_keys) :
       access_keys[k].max_usage # <<>> =>
          access_keys[k].usage_count <= access_keys[k].max_usage[1]

-----------------------------------------------------------------------------
(* The courses of an access key *)

\* the key of the user is assigned courses
Restricted(user) ==
    \E k \in 1..Len(access_keys) :
       access_keys[k].key = user /\ access_keys[k].course_ids # <<>>

\* the course is published and assigned to the key of the user
Assigned(user, course_id) ==
    /\ \E c \in Range(courses) : c.id = course_id /\ c.status = "published"
    /\ \E k \in 1..Len(access_keys) :
          access_keys[k].key = user /\ course_id \in Range(access_keys[k].course_ids)

\* C23 as stated: a complete_module or submit_quiz request of a user whose key
\* is assigned courses, for a course that is not both published and assigned
\* to the key, creates or changes no ModuleProgress, CourseProgress or
\* QuizAttempt record.
C23_OnlyAssignedPublishedCourses ==
    [][(/\ last'.op \in {"complete_module", "submit_quiz"}
        /\ Restricted(last'.user)
        /\ ~Assigned(last'.user, last'.course_id))
       => UNCHANGED <<module_progress, course_progress, quiz_attempts>>]_vars

====
